---------------------------- MODULE Spec2Model ----------------------------
(***************************************************************************)
(* A model of the Config class of @cheevr/config (latest revision of the   *)
(* class, src/unnamed/part_001 lines 235-541).                             *)
(*                                                                         *)
(* Strings that the code inspects character by character (file names,      *)
(* tier names, prefixes, configuration keys) are sequences of one-letter   *)
(* strings, so that startsWith, path.extname, path.parse(..).name and      *)
(* split('.') are computed and not assumed.                                *)
(*                                                                         *)
(* A parsed tree is a set of leaves [p |-> key path, v |-> scalar]; no     *)
(* leaf's path is a prefix of another's.  Arrays are objects keyed by      *)
(* index, as they are for lodash's merge.                                  *)
(*                                                                         *)
(* require() caches the tree of a .js/.json file: the cache is state, and  *)
(* the configuration object may hold references into it.  The own          *)
(* properties of the configuration object are a set of entries             *)
(*   [p |-> path, v |-> scalar, f |-> NoFile, fp |-> <<>>]   a scalar      *)
(*   [p |-> path, v |-> "",     f |-> file,   fp |-> path]   the object at *)
(*                               path fp of the cached tree of file f      *)
(***************************************************************************)
EXTENDS Naturals, Sequences, FiniteSets, TLC

----------------------------------------------------------------------------
(* Strings *)

StartsWith(s, pre) ==
    Len(pre) <= Len(s) /\ SubSeq(s, 1, Len(pre)) = pre

IsPrefix(pre, s) ==
    StartsWith(s, pre)

Drop(s, n) ==
    SubSeq(s, n + 1, Len(s))

\* index of the last "." of s, 0 when there is none
LastDot(s) ==
    LET dots == {i \in 1..Len(s) : s[i] = "."}
    IN  IF dots = {} THEN 0 ELSE CHOOSE i \in dots : \A j \in dots : j <= i

\* path.extname: from the last dot on; "" when there is no dot or the only
\* dot is the first character
ExtName(s) ==
    IF LastDot(s) <= 1 THEN <<>> ELSE SubSeq(s, LastDot(s), Len(s))

\* path.parse(file).name and path.basename(file, path.extname(file))
ParseName(s) ==
    SubSeq(s, 1, Len(s) - Len(ExtName(s)))

\* name.split('.')
RECURSIVE Split(_)
Split(s) ==
    LET dots == {i \in 1..Len(s) : s[i] = "."}
    IN  IF dots = {} THEN <<s>>
        ELSE LET i == CHOOSE x \in dots : \A y \in dots : x <= y
             IN  <<SubSeq(s, 1, i - 1)>> \o Split(Drop(s, i))

\* String(false): what startsWith makes of the disabled override
FalseString ==
    <<"f", "a", "l", "s", "e">>

\* the JavaScript values undefined and false, where a string is expected
Undefined ==
    <<>>

JSFalse ==
    <<"<false>">>

Falsy(x) ==
    x = Undefined \/ x = JSFalse

JSString(x) ==
    IF x = JSFalse THEN FalseString ELSE x

----------------------------------------------------------------------------
(* Trees *)

Leaf(path, val) ==
    [p |-> path, v |-> val]

\* the subtree at path pre, as a tree of its own
SubTree(T, pre) ==
    {Leaf(Drop(l.p, Len(pre)), l.v) : l \in {x \in T : IsPrefix(pre, x.p)}}

\* tree T placed under path pre
Rebase(T, pre) ==
    {Leaf(pre \o l.p, l.v) : l \in T}

TopKeys(T) ==
    {l.p[1] : l \in {x \in T : x.p # <<>>}}

\* On the way to path q tree T holds a scalar, or at q it holds an object or a
\* scalar: a fill-missing merge leaves T as it is there.
Blocked(T, q) ==
    \E l \in T : IsPrefix(l.p, q) \/ IsPrefix(q, l.p)

\* the value at path q of T, "" when T has no scalar there
ValueAt(T, q) ==
    IF \E l \in T : l.p = q THEN (CHOOSE l \in T : l.p = q).v ELSE ""

----------------------------------------------------------------------------
(* The files on disk.  Keys, then names, then the directories. *)

kProp   == <<"p", "r", "o", "p">>
kSec    == <<"s", "e", "c">>
kSub    == <<"s", "u", "b">>
kA      == <<"a">>
kB      == <<"b">>
kC      == <<"c">>
kD      == <<"d">>
kE      == <<"e">>
kMod    == <<"m", "o", "d">>
kFlag   == <<"f", "l", "a", "g">>
kPath   == <<"p", "a", "t", "h">>
kReload == <<"r", "e", "l", "o", "a", "d">>
kAB     == <<"a", "_", "b">>
kDir    == <<"d", "i", "r">>

fDefaultJson == <<"d", "e", "f", "a", "u", "l", "t", ".", "j", "s", "o", "n">>
fDevJson     == <<"d", "e", "v", ".", "j", "s", "o", "n">>
fDevTxt      == <<"d", "e", "v", ".", "t", "x", "t">>
fLocalJson   == <<"l", "o", "c", "a", "l", ".", "j", "s", "o", "n">>
fAppYaml     == <<"a", "p", "p", ".", "y", "a", "m", "l">>
fFalseJson   == <<"f", "a", "l", "s", "e", ".", "j", "s", "o", "n">>
fNotesTxt    == <<"n", "o", "t", "e", "s", ".", "t", "x", "t">>
fReadmeMd    == <<"r", "e", "a", "d", "m", "e", ".", "m", "d">>
fDirJson     == <<"d", "i", "r", ".", "j", "s", "o", "n">>
fSecJson     == <<"s", "e", "c", ".", "j", "s", "o", "n">>
fDevelopmentJson ==
    <<"d", "e", "v", "e", "l", "o", "p", "m", "e", "n", "t", ".", "j", "s", "o", "n">>
fSecSubJson  == <<"s", "e", "c", ".", "s", "u", "b", ".", "j", "s", "o", "n">>

extJs   == <<".", "j", "s">>
extJson == <<".", "j", "s", "o", "n">>
extYml  == <<".", "y", "m", "l">>
extYaml == <<".", "y", "a", "m", "l">>

FullPath(dir, name) ==
    [d |-> dir, n |-> name]

NoFile ==
    FullPath("", <<>>)

\* fs.readdirSync: the entries of a directory that can be listed
Listing(dir) ==
    CASE dir = "data"  -> <<fDefaultJson, fDevJson, fLocalJson>>
      [] dir = "odd"   -> <<fAppYaml, fDefaultJson, fDevJson, fDevTxt,
                            fFalseJson, fNotesTxt>>
      [] dir = "data2" -> <<fDirJson, fReadmeMd, fSecJson, fSecSubJson>>
      [] dir = "multi" -> <<fDefaultJson, fDevJson, fDevelopmentJson>>
      [] OTHER         -> <<>>

Readable(dir) ==
    dir \in {"data", "odd", "data2", "multi"}

\* the directories a caller reloads from: data2 can be read and has neither a
\* default file nor a file for the tiers a and p
ConfigDirs ==
    {"data", "odd", "data2", "nowhere"}

\* what each file holds
Content(file) ==
    CASE file = FullPath("data", fDefaultJson) ->
             {Leaf(<<kProp>>, "n:1"), Leaf(<<kSec, kA>>, "n:1"),
              Leaf(<<kSec, kB>>, "n:1"), Leaf(<<kAB>>, "n:1")}
      [] file = FullPath("data", fDevJson) ->
             {Leaf(<<kProp>>, "n:2"), Leaf(<<kSec, kA>>, "n:2"),
              Leaf(<<kSec, kC>>, "n:2")}
      [] file = FullPath("data", fLocalJson) ->
             {Leaf(<<kProp>>, "n:4"), Leaf(<<kSec, kA>>, "n:4")}
      [] file = FullPath("odd", fAppYaml) ->
             {Leaf(<<kProp>>, "n:5"), Leaf(<<kReload>>, "n:5")}
      [] file = FullPath("odd", fDefaultJson) ->
             {Leaf(<<kProp>>, "n:1"), Leaf(<<kReload>>, "n:1")}
      [] file = FullPath("odd", fDevJson) ->
             {Leaf(<<kProp>>, "n:2")}
      [] file = FullPath("odd", fFalseJson) ->
             {Leaf(<<kProp>>, "n:9")}
      [] file = FullPath("data2", fDirJson) ->
             {Leaf(<<kA>>, "n:7")}
      [] file = FullPath("data2", fSecJson) ->
             {Leaf(<<kB>>, "n:7"), Leaf(<<kD>>, "n:7")}
      [] file = FullPath("data2", fSecSubJson) ->
             {Leaf(<<kFlag>>, "b:true")}
      [] file = FullPath("multi", fDefaultJson) ->
             {Leaf(<<kProp>>, "n:1")}
      [] file = FullPath("multi", fDevJson) ->
             {Leaf(<<kProp>>, "n:2"), Leaf(<<kSec, kA>>, "n:2")}
      [] file = FullPath("multi", fDevelopmentJson) ->
             {Leaf(<<kProp>>, "n:3"), Leaf(<<kSec, kA>>, "n:3"),
              Leaf(<<kSec, kB>>, "n:3")}
      [] OTHER -> {}

Dirs ==
    {"data", "odd", "data2", "multi"}

AllFiles ==
    UNION {{FullPath(d, Listing(d)[i]) : i \in 1..Len(Listing(d))} : d \in Dirs}

\* the files require() reads, and caches (src/unnamed/part_001:328-330)
CachedFiles ==
    {file \in AllFiles : ExtName(file.n) \in {extJs, extJson}}

----------------------------------------------------------------------------
(* Objects: sets of entries, which may refer into the require cache *)

ScalarEntry(path, val) ==
    [p |-> path, v |-> val, f |-> NoFile, fp |-> <<>>]

RefEntry(path, file, sub) ==
    [p |-> path, v |-> "", f |-> file, fp |-> sub]

IsRef(e) ==
    e.f # NoFile

\* the tree an object holds, its references followed
Resolve(G, C) ==
    {Leaf(e.p, e.v) : e \in {x \in G : ~IsRef(x)}}
        \cup UNION {Rebase(SubTree(C[e.f], e.fp), e.p) : e \in {x \in G : IsRef(x)}}

RebaseG(G, pre) ==
    {[e EXCEPT !.p = pre \o e.p] : e \in G}

\* config[prop]: a scalar is copied, an object is the same object
SubGraph(G, k, C) ==
    {[e EXCEPT !.p = Drop(e.p, 1)] : e \in {x \in G : x.p # <<>> /\ x.p[1] = k}}
        \cup UNION {
            LET sub == SubTree(C[e.f], e.fp \o <<k>>)
            IN  IF sub = {} THEN {}
                ELSE IF \E l \in sub : l.p = <<>>
                     THEN {ScalarEntry(<<>>, ValueAt(sub, <<>>))}
                     ELSE {RefEntry(<<>>, e.f, e.fp \o <<k>>)}
            : e \in {x \in G : x.p = <<>> /\ IsRef(x)}}

\* the references of cfg through which a write at path q goes
Mount(G, q) ==
    {e \in G : IsRef(e) /\ IsPrefix(e.p, q)}

\* new leaves L written at their paths: into the cached tree where the path
\* lies inside a referenced object, else as own values
WriteLeaves(S, L) ==
    [S EXCEPT
        !.cfg = S.cfg \cup {ScalarEntry(l.p, l.v) : l \in {x \in L : Mount(S.cfg, x.p) = {}}},
        !.cache = [file \in DOMAIN S.cache |->
            S.cache[file] \cup
                UNION {{Leaf(e.fp \o Drop(l.p, Len(e.p)), l.v) :
                           e \in {x \in Mount(S.cfg, l.p) : x.f = file}} : l \in L}]]

\* the scalars at the paths Q removed, own and cached
RemoveLeaves(S, Q) ==
    [S EXCEPT
        !.cfg = {e \in S.cfg : IsRef(e) \/ e.p \notin Q},
        !.cache = [file \in DOMAIN S.cache |->
            {l \in S.cache[file] :
                ~\E q \in Q : \E e \in Mount(S.cfg, q) :
                    e.f = file /\ l.p = e.fp \o Drop(q, Len(e.p))}]]

View(S) ==
    Resolve(S.cfg, S.cache)

----------------------------------------------------------------------------
(* Process settings: the command line, the environment, the fallbacks *)

\* 'default.' (src/unnamed/part_001:448)
DefaultPrefix ==
    <<"d", "e", "f", "a", "u", "l", "t", ".">>

\* 'development' (src/unnamed/part_001:405)
FallbackTier ==
    <<"d", "e", "v", "e", "l", "o", "p", "m", "e", "n", "t">>

\* path.join(cwd, 'config') (src/unnamed/part_001:424); no such directory here
FallbackDir ==
    "config"

\* ['production', 'prod', 'pro', 'p'] (src/unnamed/part_001:316)
DefaultProdNames ==
    {<<"p", "r", "o", "d", "u", "c", "t", "i", "o", "n">>, <<"p", "r", "o", "d">>,
     <<"p", "r", "o">>, <<"p">>}

\* prodNames when the object has no such property
NoProdNames ==
    {<<"<unset>">>}

\* String(undefined): what startsWith makes of a tier that is undefined
UndefinedString ==
    <<"u", "n", "d", "e", "f", "i", "n", "e", "d">>

TierString(t) ==
    IF t = Undefined THEN UndefinedString ELSE t

\* members the object inherits from its class and from EventEmitter that a
\* key of a file can collide with.  reload stands for the methods: the files
\* here give it scalars, which defaultsDeep does not put on a function.  dir
\* stands for the getters: their value is a string, which takes nothing.
ApiMembers ==
    {kReload, kDir}

\* this[prop] !== undefined
HasProp(S, k) ==
    k \in ApiMembers \/ \E e \in S.cfg : e.p[1] = k

----------------------------------------------------------------------------
(* _readFile, _apply, _load *)

\* _readFile: .js and .json give the cached tree itself, YAML a new tree
ReadFile(file) ==
    IF ExtName(file.n) \in {extJs, extJson}
    THEN [ok |-> TRUE, g |-> {RefEntry(<<>>, file, <<>>)}]
    ELSE IF ExtName(file.n) \in {extYml, extYaml}
         THEN [ok |-> TRUE, g |-> {ScalarEntry(l.p, l.v) : l \in Content(file)}]
         ELSE [ok |-> FALSE, g |-> {}]

\* a deep merge that assigns every leaf of src, as lodash merge would
MergeDeep(view, src, keys) ==
    {l \in src : l.p[1] \in keys}

\* lodash defaultsDeep(this[prop], config[prop]) for the keys the object has:
\* the leaves of src that fill a gap of the object (copies)
DefaultsDeep(view, src, keys) ==
    {l \in src : l.p[1] \in keys /\ ~Blocked(view, l.p)}

\* _apply: a top-level key the object lacks is assigned (an object by
\* reference), any other is filled by defaultsDeep, which a scalar, a getter's
\* value or a method swallows
Apply(S, G) ==
    LET src    == Resolve(G, S.cache)
        fresh  == {k \in TopKeys(src) : ~HasProp(S, k)}
        merged == {k \in TopKeys(src) : HasProp(S, k) /\ k \notin ApiMembers}
        S1     == [S EXCEPT !.cfg = S.cfg \cup
                      UNION {RebaseG(SubGraph(G, k, S.cache), <<k>>) : k \in fresh}]
    IN  WriteLeaves(S1, DefaultsDeep(View(S), src, merged))

\* get override: the cached prefix, else the command line's or the
\* environment's, else false; the result is cached
OverrideGet(S) ==
    IF ~Falsy(S.override) THEN S.override ELSE S.proc.override

\* the if / else if chain of the scan
Classify(name, dflt, ovr, tier) ==
    IF StartsWith(name, dflt) THEN "default"
    ELSE IF StartsWith(name, JSString(ovr)) THEN "override"
    ELSE IF StartsWith(name, TierString(tier)) THEN "tier"
    ELSE "ignored"

\* one turn of the loop over the directory's files
ScanStep(sc, tier, name) ==
    LET file == FullPath(sc.S.dir, name)
        isDf == StartsWith(name, DefaultPrefix)
        S1   == IF isDf THEN sc.S ELSE [sc.S EXCEPT !.override = OverrideGet(sc.S)]
        cls  == Classify(name, DefaultPrefix, OverrideGet(sc.S), tier)
        r    == ReadFile(file)
        base == ParseName(name)
    IN  IF sc.thrown THEN sc
        ELSE IF cls = "ignored"
        THEN [sc EXCEPT !.S = S1, !.classes = Append(@, [n |-> name, c |-> cls])]
        ELSE IF ~r.ok
        THEN [sc EXCEPT !.S = S1, !.thrown = TRUE]
        ELSE [sc EXCEPT
                !.S = [S1 EXCEPT
                    !.tier = IF cls = "default"
                             THEN (IF Falsy(S1.tier) THEN base ELSE S1.tier)
                             ELSE IF cls = "tier" THEN base ELSE S1.tier,
                    !.sources = Append(@, file)],
                !.def = IF cls = "default" THEN r.g ELSE @,
                !.ovr = IF cls = "override" THEN r.g ELSE @,
                !.tr  = IF cls = "tier" THEN r.g ELSE @,
                !.classes = Append(@, [n |-> name, c |-> cls])]

RECURSIVE ScanFrom(_, _, _, _)
ScanFrom(sc, tier, files, i) ==
    IF i > Len(files) THEN sc
    ELSE ScanFrom(ScanStep(sc, tier, files[i]), tier, files, i + 1)

\* what a load that could not list its directory leaves of the scan
NoScan ==
    [classes |-> <<>>, ovr |-> {}, tr |-> {}, def |-> {}, done |-> FALSE,
     tierArg |-> Undefined, ovrArg |-> Undefined]

\* a catch block that leaves _tier as it is
CatchOnly(S, tier) ==
    S

\* catch (e) { this._tier = tier; }
CatchTier(S, tier) ==
    [S EXCEPT !.tier = tier]

\* a load that notifies nobody
EmitNothing(S) ==
    S

\* emit('change', this): the listeners see the object as it is now
Emit(S) ==
    [S EXCEPT !.events = Append(@, View(S))]

\* a load that leaves prodNames as it finds it
KeepProdNames(S) ==
    S

SeedProdNames(S) ==
    [S EXCEPT !.prodNames = IF @ = NoProdNames THEN DefaultProdNames ELSE @]

\* _load after the loop over the files, sc being what the loop left: the
\* three _apply calls and the event, or the catch block
LoadScanned(S, tier, sc) ==
    LET lay == [classes |-> sc.classes,
                ovr |-> Resolve(sc.ovr, S.cache),
                tr  |-> Resolve(sc.tr, S.cache),
                def |-> Resolve(sc.def, S.cache),
                done |-> ~sc.thrown,
                tierArg |-> tier, ovrArg |-> OverrideGet(S)]
    IN  IF sc.thrown
        THEN SeedProdNames(CatchTier([sc.S EXCEPT !.scan = lay], tier))
        ELSE CHOOSE R \in
                 {SeedProdNames(Emit([A3 EXCEPT !.scan = lay])) :
                     A3 \in {Apply(A2, sc.def) :
                         A2 \in {Apply(A1, sc.tr) :
                             A1 \in {Apply(sc.S, sc.ovr)}}}} : TRUE

\* _load, files being what fs.readdirSync(this.dir) returns when the
\* directory can be listed
LoadListed(S, tier, files) ==
    IF ~Readable(S.dir)
    THEN SeedProdNames(CatchTier([S EXCEPT !.scan = NoScan], tier))
    ELSE CHOOSE R \in
             {LoadScanned(S, tier, sc) :
                 sc \in {ScanFrom([S |-> S, def |-> {}, ovr |-> {}, tr |-> {},
                                   thrown |-> FALSE, classes |-> <<>>],
                                  tier, files, 1)}} : TRUE

\* _load
Load(S, tier) ==
    LoadListed(S, tier, Listing(S.dir))

----------------------------------------------------------------------------
(* _parseEnv, _applyEnv *)

\* the variables of the process environment: SEC_A=7, PATH=/bin and A_B=7
EnvVars ==
    {[name |-> <<"S", "E", "C", "_", "A">>, val |-> "s:7"],
     [name |-> <<"P", "A", "T", "H">>, val |-> "s:/bin"],
     [name |-> <<"A", "_", "B">>, val |-> "s:7"]}

\* '_' (src/unnamed/part_001:364)
Delimiter ==
    "_"

LowerChar(c) ==
    CASE c = "A" -> "a" [] c = "B" -> "b" [] c = "C" -> "c" [] c = "E" -> "e"
      [] c = "H" -> "h" [] c = "P" -> "p" [] c = "S" -> "s" [] c = "T" -> "t"
      [] OTHER -> c

\* String.prototype.toLowerCase
ToLowerCase(s) ==
    [i \in 1..Len(s) |-> LowerChar(s[i])]

LowerPath(q) ==
    [i \in 1..Len(q) |-> ToLowerCase(q[i])]

RECURSIVE SplitOn(_, _)
SplitOn(s, c) ==
    LET at == {i \in 1..Len(s) : s[i] = c}
    IN  IF at = {} THEN <<s>>
        ELSE LET i == CHOOSE x \in at : \A y \in at : x <= y
             IN  <<SubSeq(s, 1, i - 1)>> \o SplitOn(Drop(s, i), c)

\* unflatten(sanitized, {delimiter}) of the lower-cased names
Unflatten(vars) ==
    {Leaf(SplitOn(ToLowerCase(x.name), Delimiter), x.val) : x \in vars}

\* JSON.parse of a variable's value, the value itself when it does not parse:
\* "7" is the number 7, "true" the boolean, "/bin" stays a string
JSONParse(val) ==
    CASE val = "s:7" -> "n:7" [] val = "s:true" -> "b:true" [] OTHER -> val

\* _applyEnv(this, overrides): a scalar of the object whose lower-cased path
\* the environment names is replaced (parsed when the environment holds a
\* string there, as it is when it holds an object); what the walk did not use
\* is assigned as it is.  The environment here names no object of the
\* configuration.
ApplyEnv(S, E) ==
    LET view == View(S)
        hits == {l \in view : \E e \in E : IsPrefix(LowerPath(l.p), e.p)}
        repl(l) ==
            LET sub == SubTree(E, LowerPath(l.p))
            IN  IF \E x \in sub : x.p = <<>>
                THEN {Leaf(l.p, JSONParse(ValueAt(sub, <<>>)))}
                ELSE Rebase(sub, l.p)
        rest == {e \in E : ~\E l \in view : IsPrefix(LowerPath(l.p), e.p)}
    IN  WriteLeaves(RemoveLeaves(S, {l.p : l \in hits}),
                    UNION {repl(l) : l \in hits} \cup rest)

\* _parseEnv
ParseEnv(S) ==
    IF S.proc.noenv THEN S ELSE ApplyEnv(S, Unflatten(EnvVars))

----------------------------------------------------------------------------
(* The public members *)

\* get tier
TierGet(S) ==
    IF ~Falsy(S.tier) THEN S ELSE Load(S, FallbackTier)

\* set tier
TierSet(S, t) ==
    Load(S, t)

\* reload(tier = this.tier, dir = this._dir, override); an argument left out
\* is Undefined, "" for the directory
ReloadOp(S, t, d, o) ==
    CHOOSE R \in
        {ParseEnv(L) :
            L \in {TierSet([S0 EXCEPT !.cfg = {}, !.prodNames = NoProdNames,
                                      !.dir = IF d = "" THEN S0.dir ELSE d,
                                      !.override = o, !.sources = <<>>,
                                      !.tier = Undefined],
                            IF t = Undefined THEN S0.tier ELSE t) :
                      S0 \in {IF t = Undefined THEN TierGet(S) ELSE S}}} : TRUE

\* reload(t, d, o) with a tier and a directory given, files being what the
\* listing of d returns
ReloadListed(S, t, d, o, files) ==
    CHOOSE R \in
        {ParseEnv(L) :
            L \in {LoadListed([S EXCEPT !.cfg = {}, !.prodNames = NoProdNames,
                                        !.dir = d, !.override = o,
                                        !.sources = <<>>, !.tier = Undefined],
                               t, files)}} : TRUE

\* get isProd: this.prodNames.indexOf(this.tier) !== -1
IsProd(S) ==
    TierGet(S).tier \in S.prodNames

\* fs.statSync(path): a directory, a file, something else, or nothing there
PathKind(path) ==
    IF path.n = <<>> /\ Readable(path.d) THEN "dir"
    ELSE IF path \in AllFiles THEN "file"
    ELSE IF path.d = "special" THEN "other"
    ELSE "missing"

\* name.split('.').reduceRight((prev, curr) => ({[curr]: prev}), content)
NestUnder(name, g) ==
    RebaseG(g, Split(name))

RECURSIVE AddDirFrom(_, _, _)
AddDirFrom(S, dir, i) ==
    LET name == Listing(dir)[i]
        file == FullPath(dir, name)
    IN  IF i > Len(Listing(dir)) THEN S
        ELSE IF ExtName(name) \in {extJs, extJson, extYml, extYaml}
        THEN AddDirFrom([Apply(S, NestUnder(ParseName(name), ReadFile(file).g))
                            EXCEPT !.sources = Append(@, file)], dir, i + 1)
        ELSE AddDirFrom(S, dir, i + 1)

\* addDefaultConfig(path): threw is set when the call raises
AddDefaultConfigPath(S, path) ==
    CASE PathKind(path) = "dir" -> Emit(AddDirFrom(S, path.d, 1))
      [] PathKind(path) = "file" ->
            IF ReadFile(path).ok
            THEN Emit([Apply(S, NestUnder(ParseName(path.n), ReadFile(path).g))
                          EXCEPT !.sources = Append(@, path)])
            ELSE [S EXCEPT !.threw = TRUE]
      [] PathKind(path) = "other" -> Emit(S)
      [] OTHER -> [S EXCEPT !.threw = TRUE]

\* addDefaultConfig(object)
AddDefaultConfigObject(S, tree) ==
    Emit(Apply(S, {ScalarEntry(l.p, l.v) : l \in tree}))

\* config.a.b = val, where config.a is an object and config.a.b is not one
WriteOp(S, q, val) ==
    WriteLeaves(RemoveLeaves(S, {q}), {Leaf(q, val)})

CanWrite(S, q) ==
    /\ q[1] \notin ApiMembers
    /\ Len(q) > 1 =>
           \E l \in View(S) : Len(l.p) >= Len(q)
                              /\ SubSeq(l.p, 1, Len(q) - 1) = SubSeq(q, 1, Len(q) - 1)
    /\ ~\E l \in View(S) : IsPrefix(q, l.p) /\ l.p # q
    /\ ~\E l \in View(S) : IsPrefix(l.p, q) /\ l.p # q

----------------------------------------------------------------------------
(* appendValue, which only the earlier revision of the class has            *)
(* (src/index.js:327-351).  Its object is a tree whose leaves hold a scalar *)
(* or an array of scalars.                                                  *)

Scalar(tok) ==
    [arr |-> FALSE, xs |-> <<tok>>]

Array(seq) ==
    [arr |-> TRUE, xs |-> seq]

\* 0, false and '': the scalars that !x takes for missing
FalsyTokens ==
    {"n:0", "b:false", "s:"}

HasLeaf(T, q) ==
    \E l \in T : l.p = q

IsObjectAt(T, q) ==
    \E l \in T : IsPrefix(q, l.p) /\ l.p # q

LeafAt(T, q) ==
    (CHOOSE l \in T : l.p = q).v

\* !context[prop] is false
Truthy(T, q) ==
    \/ IsObjectAt(T, q)
    \/ HasLeaf(T, q) /\ (LeafAt(T, q).arr \/ LeafAt(T, q).xs[1] \notin FalsyTokens)

\* context is a number, a string or true: a property cannot be created on it
\* (the class body is strict code)
IsPrimitive(T, q) ==
    q # <<>> /\ HasLeaf(T, q) /\ ~LeafAt(T, q).arr

\* one turn of the loop over the segments of the key; w.odd is set where
\* context has become an array, which a tree of leaves cannot hold
AppendStep(w, prop, last) ==
    IF w.threw \/ w.odd THEN w
    ELSE IF IsPrimitive(w.T, w.ctx) THEN [w EXCEPT !.threw = TRUE]
    ELSE IF w.ctx # <<>> /\ HasLeaf(w.T, w.ctx) THEN [w EXCEPT !.odd = TRUE]
    ELSE IF prop # last
    THEN [w EXCEPT
            !.T = IF Truthy(w.T, w.ctx \o <<prop>>) THEN @
                  ELSE {l \in @ : l.p # w.ctx \o <<prop>>},
            !.ctx = @ \o <<prop>>]
    ELSE [w EXCEPT
            !.T = IF Truthy(w.T, w.ctx \o <<prop>>) THEN @
                  ELSE {l \in @ : l.p # w.ctx \o <<prop>>}
                           \cup {Leaf(w.ctx \o <<prop>>, Array(<<>>))}]

RECURSIVE AppendWalk(_, _, _)
AppendWalk(w, props, i) ==
    IF i > Len(props) THEN w
    ELSE AppendWalk(AppendStep(w, props[i], props[Len(props)]), props, i + 1)

\* the statement after the loop: push onto the array at context[last], or
\* wrap what is there
AppendFinish(w, last, values) ==
    IF w.threw \/ w.odd THEN w
    ELSE IF IsObjectAt(w.T, w.ctx \o <<last>>) THEN [w EXCEPT !.odd = TRUE]
    ELSE [w EXCEPT !.T = {l \in @ : l.p # w.ctx \o <<last>>} \cup
             {Leaf(w.ctx \o <<last>>,
                   Array(LeafAt(w.T, w.ctx \o <<last>>).xs \o values))}]

\* appendValue(key, ...values)
AppendValue(T, key, values) ==
    IF values = <<>> THEN [T |-> T, ctx |-> <<>>, threw |-> FALSE, odd |-> FALSE]
    ELSE CHOOSE r \in
             {AppendFinish(w, Split(key)[Len(Split(key))], values) :
                 w \in {AppendWalk([T |-> T, ctx |-> <<>>, threw |-> FALSE,
                                    odd |-> FALSE], Split(key), 1)}} : TRUE

----------------------------------------------------------------------------
(* normalizePath; paths are POSIX paths, sequences of characters *)

\* path.isAbsolute
IsAbsolute(s) ==
    Len(s) > 0 /\ s[1] = "/"

RECURSIVE JoinSegs(_)
JoinSegs(segs) ==
    IF Len(segs) = 0 THEN <<>>
    ELSE IF Len(segs) = 1 THEN segs[1]
    ELSE segs[1] \o <<"/">> \o JoinSegs(Tail(segs))

\* the segments of a path with '..' resolved against what precedes it: above
\* the root '..' is dropped, in front of a relative path it is kept
RECURSIVE Collapse(_, _, _)
Collapse(segs, acc, abs) ==
    IF segs = <<>> THEN acc
    ELSE IF Head(segs) # <<".", ".">> THEN Collapse(Tail(segs), Append(acc, Head(segs)), abs)
    ELSE IF acc # <<>> /\ acc[Len(acc)] # <<".", ".">>
         THEN Collapse(Tail(segs), SubSeq(acc, 1, Len(acc) - 1), abs)
    ELSE IF abs THEN Collapse(Tail(segs), acc, abs)
    ELSE Collapse(Tail(segs), Append(acc, Head(segs)), abs)

\* path.normalize: empty and '.' segments go, '..' is resolved, a trailing
\* slash stays
PathNormalize(s) ==
    LET segs == Collapse(SelectSeq(SplitOn(s, "/"),
                                   LAMBDA x : x # <<>> /\ x # <<".">>),
                         <<>>, IsAbsolute(s))
        trail == IF s[Len(s)] = "/" THEN <<"/">> ELSE <<>>
    IN  IF segs = <<>>
        THEN (IF IsAbsolute(s) THEN <<"/">> ELSE <<".">> \o trail)
        ELSE (IF IsAbsolute(s) THEN <<"/">> ELSE <<>>) \o JoinSegs(segs) \o trail

\* path.join(a, b): the non-empty arguments joined by '/', normalized; '.'
\* when there is nothing to join
PathJoin(a, b) ==
    IF a = <<>> /\ b = <<>> THEN <<".">>
    ELSE IF a = <<>> THEN PathNormalize(b)
    ELSE IF b = <<>> THEN PathNormalize(a)
    ELSE PathNormalize(a \o <<"/">> \o b)

\* the flattening that takes an array argument for one entry
KeepArgs(dir) ==
    [i \in 1..Len(dir) |-> JoinSegs(dir[i].xs)]

\* dirs.push(...entry) for an array argument, dirs.push(entry) for a string
RECURSIVE FlattenArgs(_)
FlattenArgs(dir) ==
    IF dir = <<>> THEN <<>> ELSE Head(dir).xs \o FlattenArgs(Tail(dir))

\* normalizePath(cwd, ...dir)
NormalizePath(root, dir) ==
    [i \in 1..Len(FlattenArgs(dir)) |->
        IF IsAbsolute(FlattenArgs(dir)[i]) THEN FlattenArgs(dir)[i]
        ELSE PathJoin(root, FlattenArgs(dir)[i])]

----------------------------------------------------------------------------
(* The settings as the getters resolve them from the command line           *)
(* (minimist's args) and the environment; a flag or variable that is not    *)
(* given is Undefined.                                                      *)

\* a || b
Or(a, b) ==
    IF Falsy(a) THEN b ELSE a

\* process.cwd()
Cwd ==
    <<"/", "w">>

\* 'config' (src/unnamed/part_001:424)
ConfigDirName ==
    <<"c", "o", "n", "f", "i", "g">>

\* get tier: args.t || args.tier || NODE_CONF_TIER || NODE_ENV || 'development'
ResolveTier(args, env) ==
    Or(args.t, Or(args.tier, Or(env.NODE_CONF_TIER, Or(env.NODE_ENV, FallbackTier))))

\* get dir: args.directory || args.dir || args.d || NODE_CONF_DIR || cwd/config
ResolveDir(args, env) ==
    Or(args.directory, Or(args.dir, Or(args.d,
        Or(env.NODE_CONF_DIR, PathJoin(Cwd, ConfigDirName)))))

\* get override: args.override || args.o || NODE_CONF_OVERRIDE || false
ResolveOverride(args, env) ==
    Or(args.override, Or(args.o, Or(env.NODE_CONF_OVERRIDE, JSFalse)))

\* get default: args.s || args.default || NODE_CONF_DEFAULT || 'default.'
ResolveDefault(args, env) ==
    Or(args.s, Or(args.default, Or(env.NODE_CONF_DEFAULT, DefaultPrefix)))

ResolveSettings(args, env) ==
    [tier |-> ResolveTier(args, env), dir |-> ResolveDir(args, env),
     override |-> ResolveOverride(args, env),
     default |-> ResolveDefault(args, env)]

----------------------------------------------------------------------------
(* The state machine *)

\* how many calls a run makes after the construction
MaxCalls ==
    3

VARIABLES
    cfg,        \* the own properties of the object that are configuration
    cache,      \* require's cache: the tree of each .js/.json file read
    tier,       \* _tier
    dir,        \* _dir
    override,   \* _override
    sources,    \* _sources
    prodNames,  \* prodNames
    proc,       \* the command line and environment of the process
    events,     \* what each change event of the last call showed its listeners
    threw,      \* the last call raised an error to its caller
    scan,       \* the last scan: its arguments, classes and layers as read
    call,       \* the last call and its arguments
    lastReload, \* the arguments and the result of the last reload
    prevReload, \* those of the reload before it
    calls,      \* the calls made so far
    fn          \* the last call of a member that leaves all of the above
                \* alone, its arguments and its result; the object of the
                \* earlier revision of the class, which appendValue changes

vars ==
    <<cfg, cache, tier, dir, override, sources, prodNames, proc, events, threw,
      scan, call, lastReload, prevReload, calls, fn>>

St ==
    [cfg |-> cfg, cache |-> cache, tier |-> tier, dir |-> dir,
     override |-> override, sources |-> sources, prodNames |-> prodNames,
     proc |-> proc, events |-> events, threw |-> threw, scan |-> scan]

\* the state a call starts from
Entry ==
    [St EXCEPT !.events = <<>>, !.threw = FALSE]

Commit(R) ==
    /\ cfg' = R.cfg
    /\ cache' = R.cache
    /\ tier' = R.tier
    /\ dir' = R.dir
    /\ override' = R.override
    /\ sources' = R.sources
    /\ prodNames' = R.prodNames
    /\ proc' = R.proc
    /\ events' = R.events
    /\ threw' = R.threw
    /\ scan' = R.scan

Tiers ==
    {<<"d">>, <<"a">>, <<"p">>}

Overrides ==
    {<<"l">>}

\* no flag at all, -n, and -o l
ProcSettings ==
    {[override |-> JSFalse, noenv |-> FALSE, dir |-> FallbackDir],
     [override |-> JSFalse, noenv |-> TRUE, dir |-> FallbackDir],
     [override |-> <<"l">>, noenv |-> FALSE, dir |-> FallbackDir]}

\* the object a caller passes to addDefaultConfig
Fragments ==
    {{Leaf(<<kSec, kA>>, "n:8"), Leaf(<<kSec, kE>>, "n:8"), Leaf(<<kMod>>, "n:8")}}

AddPaths ==
    {FullPath("data2", <<>>), FullPath("data2", fSecSubJson),
     FullPath("data2", fReadmeMd), FullPath("nowhere", <<>>),
     FullPath("special", <<>>)}

Writes ==
    {Leaf(<<kSec, kA>>, "n:9"), Leaf(<<kMod>>, "n:9")}

\* the production names a caller assigns: config.prodNames = ['dev']
ProdNameSets ==
    {{<<"d", "e", "v">>}}

NoReload ==
    [t |-> Undefined, d |-> "", o |-> Undefined, real |-> FALSE, view |-> {},
     sources |-> <<>>, tierSet |-> FALSE]

\* new Config(): _sources = [], _load(this.tier), _parseEnv()
Construct(p) ==
    LET S0 == [cfg |-> {}, cache |-> [file \in CachedFiles |-> Content(file)],
               tier |-> Undefined, dir |-> p.dir, override |-> Undefined,
               sources |-> <<>>, prodNames |-> NoProdNames, proc |-> p,
               events |-> <<>>, threw |-> FALSE, scan |-> NoScan]
    IN  CHOOSE R \in
            {ParseEnv(L) :
                L \in {Load(S1, S1.tier) : S1 \in {TierGet(S0)}}} : TRUE

\* no such call yet
NoCall ==
    [op |-> "none", a |-> <<>>, b |-> <<>>, before |-> {}, obj |-> {},
     out |-> <<>>, threw |-> FALSE, n |-> 0]

\* module.exports = new Config()
Constructed ==
    \E p \in ProcSettings : \E R \in {Construct(p)} :
        /\ cfg = R.cfg
        /\ cache = R.cache
        /\ tier = R.tier
        /\ dir = R.dir
        /\ override = R.override
        /\ sources = R.sources
        /\ prodNames = R.prodNames
        /\ proc = p
        /\ events = R.events
        /\ threw = FALSE
        /\ scan = R.scan
        /\ call = [op |-> "new", t |-> Undefined, d |-> "", o |-> Undefined]
        /\ lastReload = NoReload
        /\ prevReload = NoReload
        /\ calls = 0

Init ==
    Constructed /\ fn = NoCall

Counted ==
    /\ calls < MaxCalls
    /\ calls' = calls + 1

Reload(t, d, o) ==
    /\ Counted
    /\ \E R \in {ReloadOp(Entry, t, d, o)} :
          /\ Commit(R)
          /\ lastReload' = [t |-> t, d |-> d, o |-> o, real |-> TRUE,
                            view |-> View(R), sources |-> R.sources,
                            tierSet |-> FALSE]
    /\ call' = [op |-> "reload", t |-> t, d |-> d, o |-> o]
    /\ prevReload' = lastReload
    /\ UNCHANGED fn

SetTier(t) ==
    /\ Counted
    /\ \E R \in {TierSet(Entry, t)} : Commit(R)
    /\ call' = [op |-> "tier", t |-> t, d |-> "", o |-> Undefined]
    /\ lastReload' = [lastReload EXCEPT !.tierSet = TRUE]
    /\ UNCHANGED <<prevReload, fn>>

AddDefaultConfigInline(tree) ==
    /\ Counted
    /\ \E R \in {AddDefaultConfigObject(Entry, tree)} : Commit(R)
    /\ call' = [op |-> "addObject", t |-> Undefined, d |-> "", o |-> Undefined]
    /\ UNCHANGED <<lastReload, prevReload, fn>>

AddDefaultConfigAt(path) ==
    /\ Counted
    /\ \E R \in {AddDefaultConfigPath(Entry, path)} : Commit(R)
    /\ call' = [op |-> "addPath", t |-> path.n, d |-> path.d, o |-> Undefined]
    /\ UNCHANGED <<lastReload, prevReload, fn>>

Write(l) ==
    /\ Counted
    /\ CanWrite(St, l.p)
    /\ \E R \in {WriteOp(Entry, l.p, l.v)} : Commit(R)
    /\ call' = [op |-> "write", t |-> Undefined, d |-> "", o |-> Undefined]
    /\ UNCHANGED <<lastReload, prevReload, fn>>

\* config.prodNames = names: an assignment to a plain property
SetProdNames(names) ==
    /\ Counted
    /\ \E R \in {[Entry EXCEPT !.prodNames = names]} : Commit(R)
    /\ call' = [op |-> "prodNames", t |-> Undefined, d |-> "", o |-> Undefined]
    /\ UNCHANGED <<lastReload, prevReload, fn>>

Next ==
    \/ \E t \in Tiers, d \in ConfigDirs, o \in Overrides \cup {Undefined} :
          Reload(t, d, o)
    \/ Reload(Undefined, "", Undefined)
    \/ \E t \in Tiers : SetTier(t)
    \/ \E tree \in Fragments : AddDefaultConfigInline(tree)
    \/ \E path \in AddPaths : AddDefaultConfigAt(path)
    \/ \E l \in Writes : Write(l)
    \/ \E names \in ProdNameSets : SetProdNames(names)

Spec ==
    Init /\ [][Next]_vars

----------------------------------------------------------------------------
(* The members that leave the loaded configuration alone: appendValue of    *)
(* the earlier revision on its own object, normalizePath, and the getters'  *)
(* resolution of the settings.                                              *)

\* how many appendValue calls a run makes
MaxAppends ==
    2

kAdotB   == <<"a", ".", "b">>
kAdotA   == <<"a", ".", "a">>
kAdotBdotA == <<"a", ".", "b", ".", "a">>

\* what the object holds before the first appendValue
InitialObjects ==
    {{},
     {Leaf(<<kA>>, Scalar("n:0")), Leaf(<<kC>>, Scalar("n:1"))},
     {Leaf(<<kA>>, Scalar("n:5"))},
     {Leaf(<<kA>>, Array(<<"n:3">>))},
     {Leaf(<<kA, kB>>, Scalar("b:false")), Leaf(<<kC>>, Scalar("n:1"))}}

AppendKeys ==
    {kA, kC, kAdotB, kAdotA, kAdotBdotA}

AppendValues ==
    {<<>>, <<"n:1">>, <<"n:1", "s:">>}

Roots ==
    {<<"/", "r">>, <<"r", "/">>}

PathEntries ==
    {<<>>, <<"a">>, <<"/", "b">>, <<"a", "/", "b">>, <<".", ".", "/", "c">>}

\* the arguments after the root: a string, an array, a string and an array
PathArguments ==
    {<<>>}
        \cup {<<Scalar(x)>> : x \in PathEntries}
        \cup {<<Array(<<>>)>>}
        \cup {<<Array(<<x, y>>)>> : x, y \in PathEntries}
        \cup {<<Array(<<x>>), Scalar(y)>> : x, y \in PathEntries}

NoArgs ==
    [t |-> Undefined, tier |-> Undefined, d |-> Undefined, dir |-> Undefined,
     directory |-> Undefined, o |-> Undefined, override |-> Undefined,
     s |-> Undefined, default |-> Undefined]

NoEnv ==
    [NODE_CONF_TIER |-> Undefined, NODE_ENV |-> Undefined,
     NODE_CONF_DIR |-> Undefined, NODE_CONF_OVERRIDE |-> Undefined,
     NODE_CONF_DEFAULT |-> Undefined]

FlagValues ==
    {Undefined, <<"a">>, <<"b">>}

EnvValues ==
    {Undefined, <<"e">>}

\* command lines giving the flags of one setting
CommandLines ==
    {[NoArgs EXCEPT !.t = x, !.tier = y] : x, y \in FlagValues}
        \cup {[NoArgs EXCEPT !.d = x, !.dir = y, !.directory = z] :
                 x, y, z \in FlagValues}
        \cup {[NoArgs EXCEPT !.o = x, !.override = y] : x, y \in FlagValues}
        \cup {[NoArgs EXCEPT !.s = x, !.default = y] : x, y \in FlagValues}

\* environments giving the variables of one setting
Environments ==
    {[NoEnv EXCEPT !.NODE_CONF_TIER = x, !.NODE_ENV = y] : x, y \in EnvValues}
        \cup {[NoEnv EXCEPT !.NODE_CONF_DIR = x] : x \in EnvValues}
        \cup {[NoEnv EXCEPT !.NODE_CONF_OVERRIDE = x] : x \in EnvValues}
        \cup {[NoEnv EXCEPT !.NODE_CONF_DEFAULT = x] : x \in EnvValues}

\* every variable but fn
object ==
    <<cfg, cache, tier, dir, override, sources, prodNames, proc, events, threw,
      scan, call, lastReload, prevReload, calls>>

\* a process started with -n and nothing else
MembersInit ==
    /\ Constructed
    /\ proc.noenv
    /\ \E T \in InitialObjects : fn = [NoCall EXCEPT !.obj = T, !.before = T]

\* appendValue(key, ...values) on the object as the calls before left it
AppendValueCall(key, values) ==
    /\ fn.n < MaxAppends
    /\ \E r \in {AppendValue(fn.obj, key, values)} :
          /\ ~r.odd
          /\ fn' = [op |-> "appendValue", a |-> key, b |-> values,
                    before |-> fn.obj, obj |-> r.T, out |-> <<>>,
                    threw |-> r.threw, n |-> fn.n + 1]
    /\ UNCHANGED object

\* normalizePath and the getters read nothing that a call changes: a run
\* makes one such call, on the fresh object
NormalizePathCall(root, args) ==
    /\ fn.op = "none"
    /\ fn' = [fn EXCEPT !.op = "normalizePath", !.a = root, !.b = args,
                        !.before = fn.obj, !.out = NormalizePath(root, args),
                        !.threw = FALSE]
    /\ UNCHANGED object

\* the four getters on a fresh object of a process started with args and env
SettingsCall(args, env) ==
    /\ fn.op = "none"
    /\ fn' = [fn EXCEPT !.op = "settings", !.a = args, !.b = env,
                        !.before = fn.obj, !.out = ResolveSettings(args, env),
                        !.threw = FALSE]
    /\ UNCHANGED object

MembersNext ==
    \/ \E key \in AppendKeys, values \in AppendValues : AppendValueCall(key, values)
    \/ \E root \in Roots, args \in PathArguments : NormalizePathCall(root, args)
    \/ \E args \in CommandLines, env \in Environments : SettingsCall(args, env)

MembersSpec ==
    MembersInit /\ [][MembersNext]_vars

----------------------------------------------------------------------------
(* Reloads under every order in which fs.readdirSync may return the files   *)
(* of the directory: the order is the file system's, not the program's.     *)

\* how many reloads such a run makes
MaxListed ==
    2

\* the directories reloaded from: multi holds dev.json and development.json
ListedDirs ==
    {"data", "multi"}

ListedTiers ==
    {<<"d">>, <<"a">>}

\* the orders in which the entries of a directory can come
Orders(d) ==
    {[i \in 1..Len(Listing(d)) |-> Listing(d)[f[i]]] :
        f \in Permutations(1..Len(Listing(d)))}

ListedInit ==
    Constructed /\ fn = NoCall

\* reload(t, d, o), the listing of d coming as files
ReloadFrom(t, d, o, files) ==
    /\ calls < MaxListed
    /\ calls' = calls + 1
    /\ \E R \in {ReloadListed(Entry, t, d, o, files)} :
          /\ Commit(R)
          /\ lastReload' = [t |-> t, d |-> d, o |-> o, real |-> TRUE,
                            view |-> View(R), sources |-> R.sources,
                            tierSet |-> FALSE]
    /\ call' = [op |-> "reload", t |-> t, d |-> d, o |-> o]
    /\ prevReload' = lastReload
    /\ fn' = [NoCall EXCEPT !.op = "listing", !.out = files]

ListedNext ==
    \E t \in ListedTiers, d \in ListedDirs, o \in Overrides \cup {Undefined} :
        \E files \in Orders(d) : ReloadFrom(t, d, o, files)

ListedSpec ==
    ListedInit /\ [][ListedNext]_vars

----------------------------------------------------------------------------
(* Properties *)

ViewNow ==
    View(St)

\* no leaf lies at or under another leaf's path
WellFormed(T) ==
    \A l1, l2 \in T : l1 # l2 => ~IsPrefix(l1.p, l2.p)

IsLeafOf(T, q) ==
    \E l \in T : l.p = q

\* the paths that are leaves of more than one of the three layers of the scan
SharedLeafPaths ==
    {q \in {l.p : l \in scan.ovr \cup scan.tr \cup scan.def} :
        \/ IsLeafOf(scan.ovr, q) /\ IsLeafOf(scan.tr, q)
        \/ IsLeafOf(scan.ovr, q) /\ IsLeafOf(scan.def, q)
        \/ IsLeafOf(scan.tr, q) /\ IsLeafOf(scan.def, q)}

\* override before tier before default
PrecedenceValue(q) ==
    IF IsLeafOf(scan.ovr, q) THEN ValueAt(scan.ovr, q)
    ELSE IF IsLeafOf(scan.tr, q) THEN ValueAt(scan.tr, q)
    ELSE ValueAt(scan.def, q)

\* C1: after a reload whose scan of a readable directory completed, with the
\* environment overlay disabled, every key path that is a leaf of more than
\* one layer holds the override layer's value if that layer sets it, else the
\* tier layer's, else the default layer's.
C1_PrecedenceLaw ==
    (call.op = "reload" /\ scan.done /\ proc.noenv) =>
        \A q \in SharedLeafPaths : ValueAt(ViewNow, q) = PrecedenceValue(q)

\* C2: after a successful load every top-level key of every layer is a
\* property of the object holding the configured value, also a key named as
\* a member of the object is; after addDefaultConfig(object) every top-level
\* key of the object is.
C2_Completeness ==
    /\ (call.op = "reload" /\ scan.done) =>
          \A k \in TopKeys(scan.ovr \cup scan.tr \cup scan.def) :
              k \in TopKeys(ViewNow)
    /\ call.op = "addObject" =>
          \A tree \in Fragments : \A k \in TopKeys(tree) : k \in TopKeys(ViewNow)

\* C3: a reload with the arguments of the reload before it, with only
\* addDefaultConfig calls and property writes in between, gives the same
\* configuration and the same source list.
C3_IdempotentReload ==
    (/\ prevReload.real /\ lastReload.real /\ ~prevReload.tierSet
     /\ prevReload.t = lastReload.t /\ prevReload.d = lastReload.d
     /\ prevReload.o = lastReload.o) =>
        /\ lastReload.view = prevReload.view
        /\ lastReload.sources = prevReload.sources

\* C4: assigning the tier leaves the configuration, the source list, the tier
\* identifier and the emitted events as reload(tier) from the same state does.
C4_TierAssignmentIsReload ==
    [][call'.op = "tier" =>
          \A R \in {ReloadOp(Entry, call'.t, "", Undefined)} :
              /\ Resolve(cfg', cache') = View(R)
              /\ sources' = R.sources
              /\ tier' = R.tier
              /\ events' = R.events]_vars

\* C5: addDefaultConfig, given an object, a file or a directory, leaves every
\* leaf the configuration had with its value, and leaves it a leaf.
C5_AddDefaultConfigFrame ==
    [][call'.op \in {"addObject", "addPath"} =>
          /\ \A l \in Resolve(cfg, cache) : l \in Resolve(cfg', cache')
          /\ WellFormed(Resolve(cfg', cache'))]_vars

\* an object was merged where the configuration had the leaf sec.a already:
\* the leaf kept its value, the key mod was added
C5_Witness ==
    /\ call.op = "addObject"
    /\ ValueAt(ViewNow, <<kSec, kA>>) \notin {"", "n:8"}
    /\ ValueAt(ViewNow, <<kMod>>) = "n:8"

\* the class the first match in the order default-prefix, override-prefix (when
\* one is enabled), tier-prefix gives
FirstMatch(name, dflt, ovr, t) ==
    IF StartsWith(name, dflt) THEN "default"
    ELSE IF ~Falsy(ovr) /\ StartsWith(name, ovr) THEN "override"
    ELSE IF StartsWith(name, t) THEN "tier"
    ELSE "ignored"

\* C6: every file a scan classified has the class of its first match in the
\* order default-prefix, override-prefix, tier-prefix.
C6_Classification ==
    \A i \in 1..Len(scan.classes) :
        scan.classes[i].c =
            FirstMatch(scan.classes[i].n, DefaultPrefix, scan.ovrArg, scan.tierArg)

\* C7: after reload(tier, dir) without an override argument no file is in the
\* override layer.
C7_OverrideDisabled ==
    (call.op = "reload" /\ call.o = Undefined) =>
        \A i \in 1..Len(scan.classes) : scan.classes[i].c # "override"

\* the names the last scan gave class c, in the order of the listing
NamesOfClass(c) ==
    SelectSeq(scan.classes, LAMBDA x : x.c = c)

\* C8: after reload on a readable directory the tier identifier is the base
\* name of the file classified into the tier layer, and the default file's
\* base name when there is a default file and no tier file.
C8_TierIdentifier ==
    (call.op = "reload" /\ Readable(dir)) =>
        /\ NamesOfClass("tier") # <<>> =>
              tier = ParseName(NamesOfClass("tier")[Len(NamesOfClass("tier"))].n)
        /\ (NamesOfClass("tier") = <<>> /\ NamesOfClass("default") # <<>>) =>
              tier = ParseName(NamesOfClass("default")[1].n)

\* C9: reload(t, d) on a directory that cannot be listed raises nothing, reads
\* and applies no layer, leaves the source list empty and emits nothing, and
\* the tier identifier is t.
C9_MissingDirectory ==
    (call.op = "reload" /\ ~Readable(dir)) =>
        /\ ~threw
        /\ scan = NoScan
        /\ sources = <<>>
        /\ events = <<>>
        /\ ViewNow \subseteq Unflatten(EnvVars)
        /\ proc.noenv => ViewNow = {}
        /\ call.t # Undefined => tier = call.t

\* reload('d', 'nowhere') after a reload that had loaded the files of data
C9_Witness ==
    /\ call.op = "reload" /\ call.t = <<"d">> /\ dir = "nowhere"
    /\ prevReload.real /\ prevReload.d = "data" /\ prevReload.view # {}

\* C10: a file with an unknown extension does not end the scan: after reload
\* on a readable directory the layers were applied and change was emitted.
C10_UnknownExtensionSkipped ==
    (call.op = "reload" /\ Readable(dir)) => (scan.done /\ events # <<>>)

\* what the environment overlay makes of a configuration holding tree T
Overlaid(T) ==
    View(ParseEnv([St EXCEPT !.cfg = {ScalarEntry(l.p, l.v) : l \in T}]))

C12_OneNotificationPerCall ==
    (call.op \in {"reload", "addObject", "addPath"} /\ ~threw) =>
        Len(events) = 1

\* the segments of a key path joined by the separator
RECURSIVE JoinKeys(_, _)
JoinKeys(q, c) ==
    IF Len(q) = 1 THEN q[1] ELSE q[1] \o <<c>> \o JoinKeys(Tail(q), c)

\* C13: after a load cycle with the overlay enabled, every scalar leaf of the
\* file-merged configuration whose lower-cased segments, joined by '_', are
\* the lower-cased name of an environment variable holds that variable's
\* value, parsed as JSON when it parses.
C13_EnvironmentOverlay ==
    (call.op = "reload" /\ scan.done /\ ~proc.noenv /\ events # <<>>) =>
        \A l \in events[Len(events)] : \A x \in EnvVars :
            ToLowerCase(x.name) = JoinKeys(LowerPath(l.p), Delimiter) =>
                ValueAt(ViewNow, l.p) = JSONParse(x.val)

\* what the object held at path q, as a sequence: the array, the one scalar,
\* or nothing
PreviousAt(T, q) ==
    IF HasLeaf(T, q) THEN LeafAt(T, q).xs ELSE <<>>

\* C14: after appendValue(k, v1..vn) with n >= 1 the value at path k is the
\* array of what was there before (the elements of an array, a scalar of any
\* value, or nothing) followed by v1..vn.
C14_AppendValueResult ==
    (fn.op = "appendValue" /\ fn.b # <<>> /\ ~fn.threw
        /\ ~IsObjectAt(fn.before, Split(fn.a))) =>
        /\ HasLeaf(fn.obj, Split(fn.a))
        /\ LeafAt(fn.obj, Split(fn.a)) =
               Array(PreviousAt(fn.before, Split(fn.a)) \o fn.b)

\* leaf l lies neither on the way to path k nor at or under it
OffPath(l, k) ==
    ~IsPrefix(l.p, k) /\ ~IsPrefix(k, l.p)

\* C15: appendValue(k, ...) with at least one value leaves a value at path k
\* and changes nothing off that path; with no value it changes nothing.
C15_AppendValueFrame ==
    (fn.op = "appendValue" /\ ~fn.threw) =>
        /\ fn.b = <<>> => fn.obj = fn.before
        /\ fn.b # <<>> =>
              /\ HasLeaf(fn.obj, Split(fn.a))
              /\ {l \in fn.obj : OffPath(l, Split(fn.a))}
                     = {l \in fn.before : OffPath(l, Split(fn.a))}

\* the paths a call passes after the root, in the order given, those of an
\* array argument in the array's order
RECURSIVE InputPaths(_)
InputPaths(args) ==
    IF args = <<>> THEN <<>>
    ELSE InputPaths(SubSeq(args, 1, Len(args) - 1)) \o
             (IF args[Len(args)].arr THEN args[Len(args)].xs
              ELSE <<args[Len(args)].xs[1]>>)

\* C16: normalizePath(root, ...segments) returns one entry for each input
\* path, in input order: an absolute path as it is, a relative path joined
\* onto root; nothing for no segments.
C16_NormalizePath ==
    fn.op = "normalizePath" =>
        /\ Len(fn.out) = Len(InputPaths(fn.b))
        /\ \A i \in 1..Len(InputPaths(fn.b)) :
              fn.out[i] = IF IsAbsolute(InputPaths(fn.b)[i])
                          THEN InputPaths(fn.b)[i]
                          ELSE PathJoin(fn.a, InputPaths(fn.b)[i])
        /\ fn.b = <<>> => fn.out = <<>>

\* normalizePath('/r', ['a/b'], '/b') gave ['/r/a/b', '/b']
C16_Witness ==
    /\ fn.op = "normalizePath"
    /\ fn.a = <<"/", "r">>
    /\ fn.b = <<Array(<<<<"a", "/", "b">>>>), Scalar(<<"/", "b">>)>>
    /\ fn.out = <<<<"/", "r", "/", "a", "/", "b">>, <<"/", "b">>>>

RECURSIVE FirstGiven(_, _)
FirstGiven(vals, fallback) ==
    IF vals = <<>> THEN fallback
    ELSE IF Head(vals) # Undefined THEN Head(vals)
    ELSE FirstGiven(Tail(vals), fallback)

\* C18: each of tier, directory, default prefix and override prefix is the
\* command line flag's value if an alias of the flag is given, the longest
\* alias given winning, else the environment variable's, else the fallback.
C18_SettingResolution ==
    fn.op = "settings" =>
        /\ fn.out.tier =
              FirstGiven(<<fn.a.tier, fn.a.t, fn.b.NODE_CONF_TIER, fn.b.NODE_ENV>>,
                         <<"d", "e", "v", "e", "l", "o", "p", "m", "e", "n", "t">>)
        /\ fn.out.dir =
              FirstGiven(<<fn.a.directory, fn.a.dir, fn.a.d, fn.b.NODE_CONF_DIR>>,
                         <<"/", "w", "/", "c", "o", "n", "f", "i", "g">>)
        /\ fn.out.override =
              FirstGiven(<<fn.a.override, fn.a.o, fn.b.NODE_CONF_OVERRIDE>>, JSFalse)
        /\ fn.out.default =
              FirstGiven(<<fn.a.default, fn.a.s, fn.b.NODE_CONF_DEFAULT>>,
                         <<"d", "e", "f", "a", "u", "l", "t", ".">>)

\* the files an addDefaultConfig(path) call merges: the file, or the files of
\* the directory that have a known extension
FilesOf(path) ==
    IF PathKind(path) = "file" THEN {path}
    ELSE IF PathKind(path) = "dir"
    THEN {FullPath(path.d, Listing(path.d)[i]) :
             i \in {j \in 1..Len(Listing(path.d)) :
                       ExtName(Listing(path.d)[j]) \in {extJs, extJson, extYml, extYaml}}}
    ELSE {}

\* C19: after addDefaultConfig of a file named s1.s2...sn (given directly or
\* found in the given directory) every leaf of its content that the
\* configuration did not have is readable at s1.s2...sn.<leaf>, and the
\* file's path has been appended to the source list.
C19_NestedNaming ==
    [][(call'.op = "addPath" /\ ~threw') =>
          \A f \in FilesOf(FullPath(call'.d, call'.t)) :
              /\ \A l \in (IF f \in CachedFiles THEN cache[f] ELSE Content(f)) :
                    ~IsLeafOf(Resolve(cfg, cache), Split(ParseName(f.n)) \o l.p) =>
                        ValueAt(Resolve(cfg', cache'), Split(ParseName(f.n)) \o l.p) = l.v
              /\ \E i \in (Len(sources) + 1)..Len(sources') : sources'[i] = f]_vars

\* C20: addDefaultConfig with a path at which there is neither a regular file
\* nor a directory, or nothing at all, returns without raising and leaves the
\* configuration and the source list as they were.
C20_InvalidPath ==
    [][(call'.op = "addPath"
            /\ PathKind(FullPath(call'.d, call'.t)) \notin {"dir", "file"}) =>
          /\ ~threw'
          /\ Resolve(cfg', cache') = Resolve(cfg, cache)
          /\ sources' = sources]_vars


\* the files whose content the load that left this scan merged: the last file
\* of each layer when the scan went through, none when it did not
MergedByLoad(sc, d) ==
    IF ~sc.done THEN {}
    ELSE {FullPath(d, sc.classes[i].n) :
             i \in {j \in 1..Len(sc.classes) :
                       /\ sc.classes[j].c # "ignored"
                       /\ \A k \in (j + 1)..Len(sc.classes) :
                             sc.classes[k].c # sc.classes[j].c}}

\* the entries a call appended to the source list; reload starts a new list
AppendedBy(op, before, after) ==
    IF op = "reload" THEN after
    ELSE SubSeq(after, Len(before) + 1, Len(after))

\* C21: the source list holds the files whose content was merged into the
\* configuration and no other: each load and each addDefaultConfig appends
\* exactly the files it merged, none that a scan read before it failed, and
\* no file is in the list twice.
C21_SourceListAccuracy ==
    [][call'.op \in {"reload", "tier", "addPath"} =>
          /\ {AppendedBy(call'.op, sources, sources')[i] :
                 i \in 1..Len(AppendedBy(call'.op, sources, sources'))}
               = IF call'.op = "addPath"
                 THEN (IF threw' THEN {} ELSE FilesOf(FullPath(call'.d, call'.t)))
                 ELSE MergedByLoad(scan', dir')
          /\ \A i, j \in 1..Len(sources') :
                sources'[i] = sources'[j] => i = j]_vars


\* what a read of the tier property leaves of the object
AfterTierRead ==
    TierGet(St)

\* C22: after the construction and after every reload the tier identifier is a
\* defined, non-empty string, and a read of tier returns it and leaves the
\* configuration, the source list, the scan and the events as they are; also
\* when the directory can be read and has no default file and no tier file.
C22_TierCaching ==
    call.op \in {"new", "reload"} =>
        /\ ~Falsy(tier)
        /\ tier # <<>>
        /\ \A R \in {AfterTierRead} :
              /\ R.tier = tier
              /\ View(R) = ViewNow
              /\ R.sources = sources
              /\ R.events = events
              /\ R.scan = scan


\* C23: once the caller has assigned production names of their own, no load,
\* tier assignment or reload puts the default names in their place, and
\* isProd is evaluated against the caller's names.
C23_CustomProdNamesKept ==
    [][(prodNames \in ProdNameSets /\ call'.op \in {"reload", "tier"}) =>
          /\ prodNames' = prodNames
          /\ \A R \in {[cfg |-> cfg', cache |-> cache', tier |-> tier',
                        dir |-> dir', override |-> override',
                        sources |-> sources', prodNames |-> prodNames',
                        proc |-> proc', events |-> events', threw |-> threw',
                        scan |-> scan']} :
                IsProd(R) <=> R.tier \in prodNames]_vars


\* C24: merging the layers, addDefaultConfig and the environment overlay leave
\* the tree that the reader returned for a file as it was, so the next read of
\* the same file, which gives the same cached tree, gives the file's content.
C24_LayersNotAliased ==
    [][call'.op \in {"reload", "tier", "addObject", "addPath"} =>
          \A f \in CachedFiles : cache'[f] = cache[f]]_vars


\* C25: for the same files, tier, prefixes and environment, reload leaves the
\* same configuration and the same tier identifier whatever the order in
\* which the listing returned the files, also when two files match the prefix
\* of one layer.
C25_ListingOrderIndependence ==
    [][fn'.op = "listing" =>
          \A files \in Orders(call'.d) :
              \A R \in {ReloadListed(Entry, call'.t, call'.d, call'.o, files)} :
                  /\ View(R) = Resolve(cfg', cache')
                  /\ R.tier = tier']_vars

============================================================================
